---- MODULE Spec2Model ----
(***************************************************************************)
(* A model of gpoll, a poller that watches a remote Git branch and hands   *)
(* every commit-to-commit step to a handler and a delivery channel.        *)
(*                                                                         *)
(* The poller (Start, StartAsync, Stop, Poll, setup, onStart, loop) is     *)
(* modelled from src/gpoll.go lines 49-213; the Git service (DiffRemote,   *)
(* listCommits, Clone, FetchLatestRemoteCommit) from src/unnamed/part_001. *)
(* The go-git provider behind the service is the environment: a remote     *)
(* branch on which commits are pushed, and network calls that may fail.    *)
(***************************************************************************)
EXTENDS Integers, Sequences, FiniteSets, TLC

\* Bounds of the model.
MaxCommits == 3
MaxStarts == 2
MaxPolls == 1
MaxStopBlocked == 1

\* Program constants: the capacities of the two channels made by NewPoller.
CloserCap == 1
ChanCap == 1

Commits == 1..MaxCommits
NoCommit == 0
Calls == 1..MaxStarts
DirectCaller == 0
Threads == {DirectCaller} \cup Calls

VARIABLES
    parent,       \* remote object graph: first parent of each commit, 0 = none
    nCommits,     \* commits created so far; the remote branch points at nCommits
    repoHead,     \* per cloned repository: the local head commit
    repoObjs,     \* per cloned repository: the commits in its object store
    repoBase,     \* per cloned repository: the head right after the clone
    repo,         \* p.repo: the repository handle of the poller, 0 = nil
    closer,       \* p.closer: number of stop signals buffered
    stopBlocked,  \* Stop callers blocked on a full p.closer
    stopCalled,   \* Stop was called: "never", "idle" (on no Running poller), "running"
    c,            \* p.c: the delivery channel's buffer
    chanReturned, \* a StartAsync call has returned p.c to its caller
    config,       \* the PollConfig given to NewPoller, with the defaults it fills in
    created,      \* what NewPoller returned: "none" (not called), "poller", "error"
    handlerSet,   \* config.HandleCommit != nil
    filterSet,    \* config.FileChangeFilter != nil
    nStarts,      \* Start/StartAsync calls made
    kind,         \* per call: "sync" (Start) or "async" (StartAsync)
    call,         \* per call: "none", "setup", "err", "running" (Start in its loop),
                  \* "go" (StartAsync has started its loop and not returned yet),
                  \* "chan" (StartAsync has returned p.c), "nil"
    ticker,       \* per call: "none", "running", "stopped"
    pc,           \* per thread: its position in setup, loop and Poll
    changes,      \* per thread: the CommitDiffs its Poll computed, not yet delivered
    rp,           \* per thread: the repository handle its running Poll was given
    err,          \* per thread: the error its last Poll returned, "nil" = none
    delivered,    \* per call: the changes of the running tick its range loop is done with
    polledAt,     \* per call: how many CommitDiffs direct Polls had returned when
                  \* its tick started (kept until the tick has listed its commits)
    h,            \* per thread: the head its DiffRemote read (h := repo.Head())
    remCommit,    \* per thread: the remote commit its DiffRemote was listed
    fetchHead,    \* per thread: what the fetch of its Worktree.Pull answered: the
                  \* commit of the branch and whether the fetch updated anything
    setupIn,      \* per call: what Clone and HeadCommit answered during setup, and
                  \* the commit onStart holds for its handler call
    nPolls,       \* direct Poll calls made
    polled,       \* CommitDiffs returned by direct Poll calls
    produced,     \* CommitDiffs DiffRemote returned without error to the Polls of
                  \* the tick loops
    handled,      \* every HandleCommit invocation, in order
    sent,         \* every send on p.c, in order
    panicked      \* the process died of a runtime panic

vars == <<parent, nCommits, repoHead, repoObjs, repoBase, repo, closer,
          stopBlocked, stopCalled, c, chanReturned, config, created, handlerSet,
          filterSet, nStarts,
          kind, call, ticker, pc, changes, rp, err, delivered, polledAt, h, remCommit,
          fetchHead,
          setupIn,
          nPolls,
          polled,
          produced, handled, sent, panicked>>

envVars == <<parent, nCommits>>
repoVars == <<repoHead, repoObjs, repoBase>>
cfgVars == <<config, created, handlerSet, filterSet>>
stopVars == <<closer, stopBlocked, stopCalled>>
callVars == <<nStarts, kind, call, setupIn>>
threadVars == <<pc, changes, rp, err, delivered, polledAt, h, remCommit, fetchHead>>

----------------------------------------------------------------------------
\* The commit graph.

RemoteTip == nCommits

RECURSIVE Ancestors(_, _)
\* The commit x and everything reached from it over first parents.
Ancestors(par, x) ==
    IF x = NoCommit THEN {} ELSE {x} \cup Ancestors(par, par[x])

IsAncestor(par, a, b) == a \in Ancestors(par, b)

Reverse(s) == [i \in 1..Len(s) |-> s[Len(s) - i + 1]]

RECURSIVE walkBack(_, _, _, _)
\* The loop of listCommits: walk first parents back from cur until from.
walkBack(par, from, cur, cs) ==
    IF cur = from THEN [err |-> FALSE, cs |-> cs]
    ELSE IF par[cur] = NoCommit THEN [err |-> TRUE, cs |-> <<>>]
    ELSE walkBack(par, from, par[cur], Append(cs, cur))

\* listCommits as it would be if the walked commits were not put in reverse.
listCommitsNewestFirst(par, from, to) ==
    LET w == walkBack(par, from, to, <<>>)
    IN  IF w.err THEN [err |-> TRUE, commits |-> <<>>]
        ELSE [err |-> FALSE, commits |-> Append(w.cs, from)]

\* listCommits as it would be if a walk that runs out of parents were taken
\* as a walk that found nothing new.
listCommitsNoError(par, from, to) ==
    LET w == walkBack(par, from, to, <<>>)
    IN  IF w.err THEN [err |-> FALSE, commits |-> <<from>>]
        ELSE [err |-> FALSE, commits |-> Reverse(Append(w.cs, from))]

\* listCommits: the commits from..to, oldest first; an error when the walk
\* runs out of parents before it meets from.
listCommits(par, from, to) ==
    LET w == walkBack(par, from, to, <<>>)
    IN  IF w.err THEN [err |-> TRUE, commits |-> <<>>]
        ELSE [err |-> FALSE, commits |-> Reverse(Append(w.cs, from))]

\* A CommitDiff as far as the poller looks at it: its From and To commits.
Diff(from, to) == [from |-> from, to |-> to]

\* The diff loop as it would be if from stayed at the current commit.
diffsOfFromCurrent(current, commits) ==
    [i \in 1..(Len(commits) - 1) |-> Diff(current, commits[i + 1])]

\* The diff loop of DiffRemote over the commits listCommits returned: from
\* starts at the current commit, to runs over commits[1:], from follows to.
diffsOf(current, commits) ==
    [i \in 1..(Len(commits) - 1) |->
        Diff(IF i = 1 THEN current ELSE commits[i], commits[i + 1])]

----------------------------------------------------------------------------
\* The provider (go-git) as DiffRemote sees it.

NetResults == {"ok", "error"}

\* repo.Fetch: nothing new to fetch is reported as NoErrAlreadyUpToDate.
providerFetch(net, objs, tip) ==
    IF net = "error" THEN "error"
    ELSE IF tip \in objs THEN "uptodate" ELSE "ok"

\* What the fetch of a Worktree.Pull leaves in the call: the commit of the
\* branch as the remote answered it, and whether the fetch updated anything.
NoFetch == [ref |-> NoCommit, updated |-> FALSE]

\* Worktree.Pull after its fetch: with nothing fetched and the head already
\* at the branch it is NoErrAlreadyUpToDate; a head that is not the branch
\* commit or one of its ancestors is a non-fast-forward error; otherwise the
\* head is set to the branch commit.
providerPull(updated, par, head, ref) ==
    IF ~updated /\ head = ref THEN "uptodate"
    ELSE IF ~IsAncestor(par, head, ref) THEN "error"
    ELSE "ok"

\* DiffRemote returns the error of repo.Fetch unless it is NoErrAlreadyUpToDate.
fetchFails(res) == res # "ok" /\ res # "uptodate"

\* pullFails as it would be if DiffRemote returned an error after every pull,
\* also one that moved the head.
pullFailsAlways(res) == TRUE

\* DiffRemote returns every error of Worktree.Pull.
pullFails(res) == res # "ok"

----------------------------------------------------------------------------
\* The configuration and NewPoller.

\* Strings of the configuration: empty or set.
Empty == ""
Strings == {Empty, "set"}

\* Paths are sequences of path elements; the empty path is the empty string.
NoPath == <<>>
WorkDir == <<"wd">>
CloneDirs == {NoPath, <<"clone">>}

\* Repository-relative paths of changed files, as the provider reports them.
RelPaths == {<<"a">>, <<"b">>}

\* The interval NewPoller fills in for an Interval of 0 (unset), in seconds.
DefaultInterval == 30

\* The fields of PollConfig, GitConfig and GitAuthConfig that NewPoller reads,
\* and accepts: the FileChanges for which FileChangeFilter (if any) returns true.
Configs ==
    [Remote : Strings, SshKey : Strings, Username : Strings, Password : Strings,
     Interval : {0, 1}, CloneDirectory : CloneDirs,
     accepts : SUBSET RelPaths]

\* The configuration of the poller made by the test suite's SetupTest, with
\* the clone directory NewPoller fills in.
TestConfig ==
    [Remote |-> "set", SshKey |-> Empty, Username |-> "set", Password |-> "set",
     Interval |-> 1, CloneDirectory |-> WorkDir, accepts |-> {}]

\* The struct tags of the string fields: the tag key and the rules under it.
FieldTags ==
    [Remote   |-> [key |-> "validate",   rules |-> {"required"}],
     SshKey   |-> [key |-> "validation", rules |-> {"required_without=Username Password"}],
     Username |-> [key |-> "validation",
                   rules |-> {"required_without=SshKey", "required_with=Password"}],
     Password |-> [key |-> "validation",
                   rules |-> {"require_without=SshKey", "required_with=Username"}]]

\* The tag key validator.New() reads.
ValidatorTagName == "validate"

\* v.Struct(config): the rules under the validator's tag key are applied to
\* the string fields ("required" on the struct fields Git and Auth only
\* makes the validator go into the struct).
validateStruct(cfg) ==
    IF \E f \in DOMAIN FieldTags :
          /\ FieldTags[f].key = ValidatorTagName
          /\ "required" \in FieldTags[f].rules
          /\ cfg[f] = Empty
    THEN "error" ELSE "nil"

\* toAuthMethod: the SSH key file if SshKey is set (keyRes: reading and parsing
\* it), basic authentication with whatever Username and Password hold otherwise.
toAuthMethod(cfg, keyRes) ==
    IF cfg.SshKey # Empty THEN (IF keyRes = "ok" THEN "nil" ELSE "error")
    ELSE "nil"

\* The defaults NewPoller fills in before it validates.
withDefaults(cfg) ==
    [cfg EXCEPT !.Interval = IF @ = 0 THEN DefaultInterval ELSE @,
                !.CloneDirectory = IF @ = NoPath THEN WorkDir ELSE @]

\* NewPoller(cfg): the error it returns, "nil" when it returns a poller.
newPollerErr(cfg, wdRes, keyRes) ==
    IF cfg.CloneDirectory = NoPath /\ wdRes = "error" THEN "error"
    ELSE IF validateStruct(withDefaults(cfg)) # "nil" THEN "error"
    ELSE toAuthMethod(withDefaults(cfg), keyRes)

----------------------------------------------------------------------------
\* Initial state: NewPoller has returned a poller; nothing is started.

Init ==
    /\ parent = [x \in Commits |-> NoCommit]
    /\ nCommits = 1
    /\ repoHead = [k \in Calls |-> NoCommit]
    /\ repoObjs = [k \in Calls |-> {}]
    /\ repoBase = [k \in Calls |-> NoCommit]
    /\ repo = 0
    /\ closer = 0
    /\ stopBlocked = 0
    /\ stopCalled = "never"
    /\ c = <<>>
    /\ chanReturned = FALSE
    /\ config = TestConfig
    /\ created = "poller"
    /\ handlerSet \in BOOLEAN
    /\ filterSet \in BOOLEAN
    /\ nStarts = 0
    /\ kind = [k \in Calls |-> "none"]
    /\ call = [k \in Calls |-> "none"]
    /\ ticker = [k \in Calls |-> "none"]
    /\ pc = [t \in Threads |-> IF t = DirectCaller THEN "idle" ELSE "none"]
    /\ changes = [t \in Threads |-> <<>>]
    /\ rp = [t \in Threads |-> 0]
    /\ err = [t \in Threads |-> "nil"]
    /\ delivered = [k \in Calls |-> <<>>]
    /\ polledAt = [t \in Threads |-> 0]
    /\ h = [t \in Threads |-> NoCommit]
    /\ remCommit = [t \in Threads |-> NoCommit]
    /\ fetchHead = [t \in Threads |-> NoFetch]
    /\ setupIn = [k \in Calls |-> [clone |-> "none", head |-> "none", commit |-> NoCommit]]
    /\ nPolls = 0
    /\ polled = <<>>
    /\ produced = {}
    /\ handled = <<>>
    /\ sent = <<>>
    /\ panicked = FALSE

----------------------------------------------------------------------------
\* The environment: the remote branch.

\* A commit is pushed on top of the remote branch.
Push ==
    /\ ~panicked
    /\ nCommits < MaxCommits
    /\ nCommits' = nCommits + 1
    /\ parent' = [parent EXCEPT ![nCommits + 1] = nCommits]
    /\ UNCHANGED <<repoVars, repo, stopVars, c, chanReturned, cfgVars, callVars,
                   ticker, threadVars, nPolls, polled, produced, handled, sent, panicked>>

\* The tip of the remote branch is replaced by a rewritten commit (a force push).
ForcePush ==
    /\ ~panicked
    /\ nCommits < MaxCommits
    /\ nCommits' = nCommits + 1
    /\ parent' = [parent EXCEPT ![nCommits + 1] = parent[nCommits]]
    /\ UNCHANGED <<repoVars, repo, stopVars, c, chanReturned, cfgVars, callVars,
                   ticker, threadVars, nPolls, polled, produced, handled, sent, panicked>>

\* The remote history was never rewritten.
Linear == \A x \in 1..nCommits : parent[x] = x - 1

----------------------------------------------------------------------------
\* Start, StartAsync and setup.

\* What a call to HeadCommit or Clone can answer.
HeadResults == NetResults

\* The synthetic commit onStart hands to the handler: Init-typed changes only.
InitCall(head) == [kind |-> "init", from |-> head, to |-> head]

\* What onStart passes to the handler: the commit HeadCommit(p.repo) answered.
onStart(commit) == Append(handled, InitCall(commit))

\* Clone answers a new repository (memory storage): its head is the remote
\* tip at the time of the clone.
Clone(k, res) ==
    IF res = "error"
    THEN UNCHANGED repoVars
    ELSE /\ repoHead' = [repoHead EXCEPT ![k] = RemoteTip]
         /\ repoObjs' = [repoObjs EXCEPT ![k] = Ancestors(parent, RemoteTip)]
         /\ repoBase' = [repoBase EXCEPT ![k] = RemoteTip]

\* afterSetup as it would be if the error of setup were not looked at.
afterSetupIgnoringError(k, knd, res) ==
    /\ pc' = [pc EXCEPT ![k] = "select"]
    /\ call' = [call EXCEPT ![k] = IF knd = "sync" THEN "running" ELSE "go"]
    /\ UNCHANGED chanReturned

\* Where the call stands when setup has returned res: on an error the call
\* returns it (StartAsync without a channel); else Start runs the loop on the
\* caller's thread, and StartAsync starts it on a thread of its own (go
\* p.loop) and has yet to return.
afterSetup(k, knd, res) ==
    /\ pc' = [pc EXCEPT ![k] = IF res = "ok" THEN "select" ELSE "none"]
    /\ call' = [call EXCEPT ![k] = IF res # "ok" THEN "err"
                                   ELSE IF knd = "sync" THEN "running" ELSE "go"]
    /\ UNCHANGED chanReturned

\* The call enters setup and Clone answers: on an error setup returns it,
\* else the clone is held in the local variable repo of setup.
startCall(knd) ==
    /\ ~panicked
    /\ nStarts < MaxStarts
    /\ \E cloneRes \in NetResults :
         LET k == nStarts + 1
         IN  /\ nStarts' = k
             /\ kind' = [kind EXCEPT ![k] = knd]
             /\ setupIn' = [setupIn EXCEPT ![k].clone = cloneRes]
             /\ Clone(k, cloneRes)
             /\ IF cloneRes = "error"
                THEN afterSetup(k, knd, "cloneErr")
                ELSE /\ pc' = [pc EXCEPT ![k] = "assign"]
                     /\ call' = [call EXCEPT ![k] = "setup"]
                     /\ UNCHANGED chanReturned
    /\ UNCHANGED <<envVars, repo, stopVars, c, cfgVars, ticker, changes, rp, h, remCommit, fetchHead, delivered,
                   polledAt, err, nPolls, polled, produced, handled, sent, panicked>>

Start == startCall("sync")

StartAsync == startCall("async")

\* p.repo = repo.
setupAssign(k) ==
    /\ ~panicked
    /\ pc[k] = "assign"
    /\ repo' = k
    /\ pc' = [pc EXCEPT ![k] = "onStart"]
    /\ UNCHANGED <<envVars, repoVars, stopVars, c, chanReturned, cfgVars, nStarts, kind,
                   call, setupIn, ticker, changes, rp, h, remCommit, fetchHead, delivered, polledAt, err, nPolls,
                   polled, produced, handled, sent, panicked>>

\* onStart up to HeadCommit: without a handler it returns at once, else it
\* reads the head of the repository p.repo names at that time.
HeadCommit(k) ==
    /\ ~panicked
    /\ pc[k] = "onStart"
    /\ IF ~handlerSet
       THEN /\ pc' = [pc EXCEPT ![k] = "ticker"]
            /\ UNCHANGED <<call, chanReturned, setupIn>>
       ELSE \E headRes \in HeadResults :
              IF headRes = "error"
              THEN /\ setupIn' = [setupIn EXCEPT ![k].head = "error"]
                   /\ afterSetup(k, kind[k], "headErr")
              ELSE /\ setupIn' = [setupIn EXCEPT ![k].head = "ok",
                                                 ![k].commit = repoHead[repo]]
                   /\ pc' = [pc EXCEPT ![k] = "walk"]
                   /\ UNCHANGED <<call, chanReturned>>
    /\ UNCHANGED <<envVars, repoVars, repo, stopVars, c, cfgVars, nStarts, kind,
                   ticker, changes, rp, h, remCommit, fetchHead, delivered, polledAt, err, nPolls,
                   polled, produced, handled, sent, panicked>>

\* The rest of onStart: filepath.Walk over the clone directory, then the
\* handler is called with the commit read before the walk.
onStartHandle(k) ==
    /\ ~panicked
    /\ pc[k] = "walk"
    /\ handled' = onStart(setupIn[k].commit)
    /\ pc' = [pc EXCEPT ![k] = "ticker"]
    /\ UNCHANGED <<envVars, repoVars, repo, stopVars, c, chanReturned, cfgVars, nStarts,
                   kind, call, setupIn, ticker, changes, rp, h, remCommit, fetchHead, delivered, polledAt, err,
                   nPolls, polled, produced, sent, panicked>>

\* time.NewTicker; setup returns the ticker and the loop starts: p.loop(ticker)
\* in Start, go p.loop(ticker) in StartAsync. (Until the loop is at its select
\* only this call knows the ticker, so the two are taken as one step.)
setupTicker(k) ==
    /\ ~panicked
    /\ pc[k] = "ticker"
    /\ ticker' = [ticker EXCEPT ![k] = "running"]
    /\ afterSetup(k, kind[k], "ok")
    /\ UNCHANGED <<envVars, repoVars, repo, stopVars, c, cfgVars, nStarts, kind,
                   setupIn, changes, rp, h, remCommit, fetchHead, delivered, polledAt, err, nPolls,
                   polled, produced, handled, sent, panicked>>

\* setup of call k after Clone: p.repo = repo, onStart, time.NewTicker.
setup(k) ==
    \/ setupAssign(k)
    \/ HeadCommit(k)
    \/ onStartHandle(k)
    \/ setupTicker(k)

\* StartAsync, after go p.loop(ticker): return p.c, nil. The loop runs on its
\* own thread meanwhile and may be anywhere in a tick.
returnChan(k) ==
    /\ ~panicked
    /\ call[k] = "go"
    /\ call' = [call EXCEPT ![k] = "chan"]
    /\ chanReturned' = TRUE
    /\ UNCHANGED <<envVars, repoVars, repo, stopVars, c, cfgVars, nStarts, kind, setupIn,
                   ticker, threadVars, nPolls, polled, produced, handled, sent, panicked>>

----------------------------------------------------------------------------
\* Stop: p.closer <- true, which blocks while the channel is full.

\* The poller is Running for call k: its setup worked, its loop was started
\* (on the caller's thread or on its own) and has not returned.
Running(k) == call[k] \in {"running", "go", "chan"} /\ pc[k] \notin {"none", "returned"}

\* Stop as it would be if p.closer had no buffer: the caller waits for a
\* loop to receive.
StopUnbuffered ==
    /\ ~panicked
    /\ stopBlocked < MaxStopBlocked
    /\ stopCalled' = IF \E k \in Calls : Running(k) THEN "running"
                     ELSE IF stopCalled = "running" THEN "running"
                     ELSE "idle"
    /\ stopBlocked' = stopBlocked + 1
    /\ UNCHANGED <<envVars, repoVars, repo, closer, c, chanReturned, cfgVars, callVars,
                   ticker, threadVars, nPolls, polled, produced, handled, sent, panicked>>

Stop ==
    /\ ~panicked
    /\ closer < CloserCap \/ stopBlocked < MaxStopBlocked
    /\ stopCalled' = IF \E k \in Calls : Running(k) THEN "running"
                     ELSE IF stopCalled = "running" THEN "running"
                     ELSE "idle"
    /\ IF closer < CloserCap
       THEN closer' = closer + 1 /\ UNCHANGED stopBlocked
       ELSE stopBlocked' = stopBlocked + 1 /\ UNCHANGED closer
    /\ UNCHANGED <<envVars, repoVars, repo, c, chanReturned, cfgVars, callVars,
                   ticker, threadVars, nPolls, polled, produced, handled, sent, panicked>>

\* A blocked Stop caller completes its send once the channel has room.
StopUnblock ==
    /\ ~panicked
    /\ stopBlocked > 0
    /\ closer < CloserCap
    /\ closer' = closer + 1
    /\ stopBlocked' = stopBlocked - 1
    /\ UNCHANGED <<envVars, repoVars, repo, stopCalled, c, chanReturned, cfgVars,
                   callVars, ticker, threadVars, nPolls, polled, produced, handled, sent,
                   panicked>>

----------------------------------------------------------------------------
\* Poll and DiffRemote, run by a thread t: a tick loop or a direct caller.

\* pollFailed as it would be if the loop went on to deliver what DiffRemote
\* had computed before the error.
pollFailedDelivering(t, e) ==
    /\ pc' = [pc EXCEPT ![t] = IF t = DirectCaller THEN "idle"
                               ELSE IF changes[t] = <<>> THEN "failed"
                               ELSE IF handlerSet THEN "handle" ELSE "send"]
    /\ changes' = changes
    /\ err' = [err EXCEPT ![t] = e]

\* Poll returns the error e to thread t: the loop takes its error branch.
pollFailed(t, e) ==
    /\ pc' = [pc EXCEPT ![t] = IF t = DirectCaller THEN "idle" ELSE "failed"]
    /\ changes' = [changes EXCEPT ![t] = <<>>]
    /\ err' = [err EXCEPT ![t] = e]

\* DiffRemote, first part: repo.Fetch.
DiffFetch(t) ==
    /\ ~panicked
    /\ pc[t] = "fetch"
    /\ \E net \in NetResults :
         LET r == rp[t]
             res == providerFetch(net, repoObjs[r], RemoteTip)
         IN  IF fetchFails(res)
             THEN /\ pollFailed(t, res)
                  /\ polledAt' = [polledAt EXCEPT ![t] = 0]
                  /\ UNCHANGED repoObjs
             ELSE /\ repoObjs' = [repoObjs EXCEPT
                                    ![r] = @ \cup Ancestors(parent, RemoteTip)]
                  /\ pc' = [pc EXCEPT ![t] = "head"]
                  /\ UNCHANGED <<changes, err, polledAt>>
    /\ UNCHANGED <<envVars, repoHead, repoBase, repo, stopVars, c, chanReturned,
                   cfgVars, callVars, ticker, rp, h, remCommit, fetchHead, delivered, nPolls, polled,
                   produced, handled, sent, panicked>>

\* DiffRemote, second part: h := repo.Head().
DiffHead(t) ==
    /\ ~panicked
    /\ pc[t] = "head"
    /\ h' = [h EXCEPT ![t] = repoHead[rp[t]]]
    /\ pc' = [pc EXCEPT ![t] = "list"]
    /\ UNCHANGED <<envVars, repoVars, repo, stopVars, c, chanReturned, cfgVars,
                   callVars, ticker, changes, rp, err, delivered, polledAt, remCommit, fetchHead,
                   nPolls, polled, produced, handled, sent, panicked>>

\* DiffRemote, third part: FetchLatestRemoteCommit asks the remote for its
\* references (rem.List) and takes the one of the branch.
DiffList(t) ==
    /\ ~panicked
    /\ pc[t] = "list"
    /\ \E net \in NetResults :
         IF net = "error"
         THEN /\ pollFailed(t, "error")
              /\ polledAt' = [polledAt EXCEPT ![t] = 0]
              /\ h' = [h EXCEPT ![t] = NoCommit]
              /\ UNCHANGED remCommit
         ELSE /\ remCommit' = [remCommit EXCEPT ![t] = RemoteTip]
              /\ pc' = [pc EXCEPT ![t] = "resolve"]
              /\ UNCHANGED <<changes, err, polledAt, h>>
    /\ UNCHANGED <<envVars, repoVars, repo, stopVars, c, chanReturned, cfgVars,
                   callVars, ticker, rp, delivered, fetchHead, nPolls, polled, produced,
                   handled, sent, panicked>>

\* The diffs DiffRemote computes from the head read earlier and the listed
\* remote commit: the lookup of that commit in the object store, listCommits
\* and one Diff per step.
resolveDiffs(par, objs, head, tip) ==
    IF tip \notin objs THEN [err |-> TRUE, diffs |-> <<>>]
    ELSE LET lc == listCommits(par, head, tip)
         IN  IF lc.err THEN [err |-> TRUE, diffs |-> <<>>]
             ELSE [err |-> FALSE, diffs |-> diffsOf(head, lc.commits)]

\* DiffRemote, fourth part: repo.CommitObject of the listed commit and of
\* h, listCommits between the two, and the Diff loop.
DiffResolve(t) ==
    /\ ~panicked
    /\ pc[t] = "resolve"
    /\ LET r == rp[t]
           res == resolveDiffs(parent, repoObjs[r], h[t], remCommit[t])
       IN  IF res.err
           THEN pollFailed(t, "error")
           ELSE /\ changes' = [changes EXCEPT ![t] = res.diffs]
                /\ pc' = [pc EXCEPT ![t] = "pull"]
                /\ UNCHANGED err
    /\ polledAt' = [polledAt EXCEPT ![t] = 0]
    /\ h' = [h EXCEPT ![t] = NoCommit]
    /\ remCommit' = [remCommit EXCEPT ![t] = NoCommit]
    /\ UNCHANGED <<envVars, repoVars, repo, stopVars, c, chanReturned, cfgVars,
                   callVars, ticker, rp, delivered, fetchHead, nPolls, polled, produced,
                   handled, sent, panicked>>

\* deliverPc as it would be if the loop sent each change without calling
\* the handler.
deliverPcNoHandler(chs) ==
    IF chs = <<>> THEN "select" ELSE "send"

\* Where the loop goes with the changes Poll returned.
deliverPc(chs) ==
    IF chs = <<>> THEN "select" ELSE IF handlerSet THEN "handle" ELSE "send"

\* DiffRemote returns the changes of thread t without error: what the
\* DiffRemote calls of ticks have returned so far.
diffsReturned(t) ==
    IF t = DirectCaller THEN produced
    ELSE produced \cup {changes[t][i] : i \in 1..Len(changes[t])}

\* Poll returns the changes to thread t: the caller of a direct Poll has
\* them, the loop of a tick starts its range over them.
pollReturns(t) ==
    IF t = DirectCaller
    THEN /\ polled' = polled \o changes[t]
         /\ changes' = [changes EXCEPT ![t] = <<>>]
         /\ pc' = [pc EXCEPT ![t] = "idle"]
         /\ UNCHANGED produced
    ELSE /\ pc' = [pc EXCEPT ![t] = deliverPc(changes[t])]
         /\ produced' = diffsReturned(t)
         /\ UNCHANGED <<polled, changes>>

\* DiffRemote, Worktree.Pull, first part: its fetch. The remote answers with
\* the commit of the branch at this instant and the missing objects are
\* stored; an error of the fetch other than NoErrAlreadyUpToDate is the
\* error of Pull, of DiffRemote and of Poll.
DiffPull(t) ==
    /\ ~panicked
    /\ pc[t] = "pull"
    /\ \E net \in NetResults :
         LET r == rp[t]
             res == providerFetch(net, repoObjs[r], RemoteTip)
         IN  IF fetchFails(res)
             THEN /\ pollFailed(t, res)
                  /\ UNCHANGED <<repoObjs, fetchHead>>
             ELSE /\ repoObjs' = [repoObjs EXCEPT ![r] = @ \cup Ancestors(parent, RemoteTip)]
                  /\ fetchHead' = [fetchHead EXCEPT
                       ![t] = [ref |-> RemoteTip, updated |-> res = "ok"]]
                  /\ pc' = [pc EXCEPT ![t] = "update"]
                  /\ UNCHANGED <<changes, err>>
    /\ UNCHANGED <<envVars, repoHead, repoBase, repo, stopVars, c, chanReturned, cfgVars,
                   callVars, ticker, rp, delivered, polledAt, h, remCommit, nPolls,
                   polled, produced, handled, sent, panicked>>

\* DiffRemote, Worktree.Pull, second part: the head as it is now is compared
\* with the branch commit the fetch answered and moved to it on a
\* fast-forward; then the diffs are returned to Poll, which runs its loop over
\* the changes (filter and path rewrite) and returns. The file changes are not
\* modelled here: with a filter configured that loop indexes the filtered
\* slice and may panic on a CommitDiff that has changes.
DiffPullHead(t) ==
    /\ ~panicked
    /\ pc[t] = "update"
    /\ \E crash \in BOOLEAN :
         LET r == rp[t]
             res == providerPull(fetchHead[t].updated, parent, repoHead[r],
                                 fetchHead[t].ref)
         IN  /\ repoHead' = [repoHead EXCEPT
                  ![r] = IF res = "ok" THEN fetchHead[t].ref ELSE @]
             /\ crash => filterSet /\ changes[t] # <<>> /\ ~pullFails(res)
             /\ panicked' = crash
             /\ IF pullFails(res) THEN pollFailed(t, res) /\ UNCHANGED <<polled, produced>>
                ELSE IF crash THEN /\ produced' = diffsReturned(t)
                                   /\ UNCHANGED <<pc, changes, err, polled>>
                ELSE pollReturns(t) /\ UNCHANGED err
    /\ fetchHead' = [fetchHead EXCEPT ![t] = NoFetch]
    /\ UNCHANGED <<envVars, repoObjs, repoBase, repo, stopVars, c, chanReturned, cfgVars,
                   callVars, ticker, rp, delivered, polledAt, h, remCommit, nPolls,
                   handled, sent>>

\* A direct call of Poll; on a poller that was never set up p.repo is nil
\* and the call dereferences it.
DirectPoll ==
    /\ ~panicked
    /\ pc[DirectCaller] = "idle"
    /\ nPolls < MaxPolls
    /\ nPolls' = nPolls + 1
    /\ IF repo = 0
       THEN panicked' = TRUE /\ UNCHANGED <<pc, rp, err>>
       ELSE /\ pc' = [pc EXCEPT ![DirectCaller] = "fetch"]
            /\ rp' = [rp EXCEPT ![DirectCaller] = repo]
            /\ err' = [err EXCEPT ![DirectCaller] = "nil"]
            /\ UNCHANGED panicked
    /\ UNCHANGED <<envVars, repoVars, repo, stopVars, c, chanReturned, cfgVars,
                   callVars, ticker, changes, delivered, polledAt, h, remCommit, fetchHead, polled, produced, handled, sent>>

----------------------------------------------------------------------------
\* The tick loop of call k.

\* select, case <-ticker.C: the running ticker fires, the loop receives the
\* tick and calls Poll. (A tick waits in the ticker's channel of capacity 1
\* until the loop is back at the select; only the loop reads that channel, so
\* the fire and the receive are taken as one step.)
LoopTick(k) ==
    /\ ~panicked
    /\ pc[k] = "select"
    /\ ticker[k] = "running"
    /\ pc' = [pc EXCEPT ![k] = "fetch"]
    /\ rp' = [rp EXCEPT ![k] = repo]
    /\ polledAt' = [polledAt EXCEPT ![k] = Len(polled)]
    /\ UNCHANGED <<envVars, repoVars, repo, stopVars, c, chanReturned, cfgVars,
                   callVars, ticker, changes, err, delivered, h, remCommit, fetchHead, nPolls, polled,
                   produced, handled, sent, panicked>>

\* LoopClose as it would be if the stop signal were also looked at between
\* the changes of a tick.
LoopCloseMidTick(k) ==
    /\ ~panicked
    /\ pc[k] \in {"select", "handle", "send"}
    /\ closer > 0
    /\ closer' = closer - 1
    /\ ticker' = [ticker EXCEPT ![k] = "stopped"]
    /\ pc' = [pc EXCEPT ![k] = "returned"]
    /\ call' = [call EXCEPT ![k] = IF kind[k] = "sync" THEN "nil" ELSE @]
    /\ UNCHANGED <<envVars, repoVars, repo, stopBlocked, stopCalled, c, chanReturned,
                   cfgVars, nStarts, kind, setupIn, changes, rp, delivered, polledAt, h, remCommit, fetchHead, err, nPolls,
                   polled, produced, handled, sent, panicked>>

\* select, case <-p.closer: ticker.Stop() and return; a blocking Start
\* returns nil.
LoopClose(k) ==
    /\ ~panicked
    /\ pc[k] = "select"
    /\ closer > 0
    /\ closer' = closer - 1
    /\ ticker' = [ticker EXCEPT ![k] = "stopped"]
    /\ pc' = [pc EXCEPT ![k] = "returned"]
    /\ call' = [call EXCEPT ![k] = IF kind[k] = "sync" THEN "nil" ELSE @]
    /\ UNCHANGED <<envVars, repoVars, repo, stopBlocked, stopCalled, c, chanReturned,
                   cfgVars, nStarts, kind, setupIn, changes, rp, delivered, polledAt, h, remCommit, fetchHead, err, nPolls, polled, produced,
                   handled, sent, panicked>>

\* if err != nil { continue }
LoopContinue(k) ==
    /\ ~panicked
    /\ pc[k] = "failed"
    /\ pc' = [pc EXCEPT ![k] = "select"]
    /\ err' = [err EXCEPT ![k] = "nil"]
    /\ UNCHANGED <<envVars, repoVars, repo, stopVars, c, chanReturned, cfgVars,
                   callVars, ticker, changes, rp, delivered, polledAt, h, remCommit, fetchHead, nPolls, polled, produced, handled, sent,
                   panicked>>

DiffCall(d) == [kind |-> "diff", from |-> d.from, to |-> d.to]

\* p.config.HandleCommit(c) for the next change of the tick.
Handle(k) ==
    /\ ~panicked
    /\ pc[k] = "handle"
    /\ handled' = Append(handled, DiffCall(Head(changes[k])))
    /\ pc' = [pc EXCEPT ![k] = "send"]
    /\ UNCHANGED <<envVars, repoVars, repo, stopVars, c, chanReturned, cfgVars,
                   callVars, ticker, changes, rp, delivered, polledAt, h, remCommit, fetchHead, err, nPolls, polled, produced, sent, panicked>>

\* for _, c := range changes: what the loop is done with once it finished the
\* head of the remaining changes chs; nothing between two ticks.
rangeDone(done, chs) ==
    IF Tail(chs) = <<>> THEN <<>> ELSE Append(done, Head(chs))

\* Send as it would be if the loop went on to the next change without
\* sending this one.
SendSkipped(k) ==
    /\ ~panicked
    /\ pc[k] = "send"
    /\ changes' = [changes EXCEPT ![k] = Tail(@)]
    /\ delivered' = [delivered EXCEPT ![k] = rangeDone(@, changes[k])]
    /\ pc' = [pc EXCEPT ![k] = deliverPc(Tail(changes[k]))]
    /\ UNCHANGED <<envVars, repoVars, repo, stopVars, c, chanReturned, cfgVars,
                   callVars, ticker, rp, polledAt, h, remCommit, fetchHead, err, nPolls, polled, produced, handled, sent,
                   panicked>>

\* p.c <- c, which blocks while the channel is full; then the next change of
\* the range loop, or back to the select when that was the last one.
Send(k) ==
    /\ ~panicked
    /\ pc[k] = "send"
    /\ Len(c) < ChanCap
    /\ c' = Append(c, Head(changes[k]))
    /\ sent' = Append(sent, Head(changes[k]))
    /\ changes' = [changes EXCEPT ![k] = Tail(@)]
    /\ delivered' = [delivered EXCEPT ![k] = rangeDone(@, changes[k])]
    /\ pc' = [pc EXCEPT ![k] = deliverPc(Tail(changes[k]))]
    /\ UNCHANGED <<envVars, repoVars, repo, stopVars, chanReturned, cfgVars,
                   callVars, ticker, rp, polledAt, h, remCommit, fetchHead, err, nPolls, polled, produced, handled, panicked>>

\* The consumer holding the channel StartAsync returned receives from it.
Receive ==
    /\ ~panicked
    /\ chanReturned
    /\ c # <<>>
    /\ c' = Tail(c)
    /\ UNCHANGED <<envVars, repoVars, repo, stopVars, chanReturned, cfgVars,
                   callVars, ticker, threadVars, nPolls, polled, produced, handled, sent,
                   panicked>>

\* What the consumer has received so far.
received == SubSeq(sent, 1, Len(sent) - Len(c))

----------------------------------------------------------------------------
\* The steps of the threads inside setup, Poll and the tick loop.
ThreadStep ==
    \/ \E k \in Calls : setup(k)
    \/ \E k \in Calls : returnChan(k)
    \/ \E t \in Threads : DiffFetch(t)
    \/ \E t \in Threads : DiffHead(t)
    \/ \E t \in Threads : DiffList(t)
    \/ \E t \in Threads : DiffResolve(t)
    \/ \E t \in Threads : DiffPull(t)
    \/ \E t \in Threads : DiffPullHead(t)
    \/ \E k \in Calls : LoopTick(k)
    \/ \E k \in Calls : LoopClose(k)
    \/ \E k \in Calls : LoopContinue(k)
    \/ \E k \in Calls : Handle(k)
    \/ \E k \in Calls : Send(k)

\* One run of the poller: Start or StartAsync is called once, Stop at will.
Next ==
    \/ Push
    \/ ForcePush
    \/ (nStarts = 0 /\ Start)
    \/ (nStarts = 0 /\ StartAsync)
    \/ Stop
    \/ StopUnblock
    \/ Receive
    \/ ThreadStep

Spec == Init /\ [][Next]_vars

\* Any sequence of Start, StartAsync and Stop calls on one poller that has no
\* filter configured, while the remote branch receives its first pushes.
NextCalls ==
    \/ (nCommits < MaxCommits - 1 /\ Push)
    \/ Start
    \/ StartAsync
    \/ Stop
    \/ StopUnblock
    \/ Receive
    \/ ThreadStep

InitNoFilter == Init /\ ~filterSet

SpecCalls == InitNoFilter /\ [][NextCalls]_vars

----------------------------------------------------------------------------
\* Steps of the remote branch and what was delivered of them.

SeqRange(s) == {s[i] : i \in 1..Len(s)}

\* The commit-to-commit steps the local head of repository r has moved over
\* since the clone.
StepsPassed(r) ==
    {Diff(parent[x], x) : x \in Ancestors(parent, repoHead[r]) \ Ancestors(parent, repoBase[r])}

NoDuplicate(s) == \A i, j \in 1..Len(s) : i < j => s[i] # s[j]

\* C1: on a remote branch that only grows, every step the poller's head has
\* moved over since setup is on the delivery channel exactly once by the time
\* the loop waits for its next tick: none is omitted and none is sent twice.
C1_ExactlyOnce ==
    Linear =>
        /\ NoDuplicate(sent)
        /\ \A k \in Calls :
             pc[k] = "select" => StepsPassed(k) \subseteq SeqRange(sent)

----------------------------------------------------------------------------
\* Order of delivery.

\* The step x lies before the step y in the history: x ends where y starts
\* or earlier.
Older(x, y) == IsAncestor(parent, x.to, y.from)

\* No entry of s is followed by an entry for an older step, and on a branch
\* that only grows every entry is older than the entries after it.
Chronological(s) ==
    \A i, j \in 1..Len(s) :
        i < j => /\ ~Older(s[j], s[i])
                 /\ Linear => Older(s[i], s[j])

\* The handler calls made for CommitDiffs.
handledDiffs == SelectSeq(handled, LAMBDA hc : hc.kind = "diff")

\* C2: CommitDiffs are passed to HandleCommit and sent on the delivery
\* channel in chronological order: the one for an older step comes before
\* the one for a newer step, within one tick and across ticks, and a
\* CommitDiff is handled before it is sent.
C2_ChronologicalOrder ==
    /\ Chronological(sent)
    /\ Chronological(handledDiffs)
    /\ handlerSet =>
         /\ Len(sent) <= Len(handledDiffs)
         /\ \A i \in 1..Len(sent) : DiffCall(sent[i]) = handledDiffs[i]

\* Two steps were delivered in one tick, and two steps in two ticks.
C2_Witness ==
    /\ handlerSet
    /\ Len(sent) = 2
    /\ Len(handledDiffs) = 2
    /\ sent[1].to = sent[2].from

----------------------------------------------------------------------------
\* DiffRemote on its own: one Poll on a cloned repository whose head is any
\* commit of any first-parent graph, the remote branch standing still.

Graphs == {par \in [Commits -> {NoCommit} \cup Commits] :
              \A x \in Commits : par[x] < x}

InitDiff ==
    /\ nCommits \in Commits
    /\ parent \in {par \in Graphs : \A x \in Commits : x > nCommits => par[x] = NoCommit}
    /\ repo = 1
    /\ \E L \in 1..nCommits :
         /\ repoHead = [k \in Calls |-> IF k = 1 THEN L ELSE NoCommit]
         /\ repoBase = repoHead
         /\ repoObjs = [k \in Calls |-> IF k = 1 THEN Ancestors(parent, L) ELSE {}]
    /\ closer = 0
    /\ stopBlocked = 0
    /\ stopCalled = "never"
    /\ c = <<>>
    /\ chanReturned = FALSE
    /\ config = TestConfig
    /\ created = "poller"
    /\ handlerSet \in BOOLEAN
    /\ filterSet \in BOOLEAN
    /\ nStarts = 0
    /\ kind = [k \in Calls |-> "none"]
    /\ call = [k \in Calls |-> "none"]
    /\ ticker = [k \in Calls |-> "none"]
    /\ pc = [t \in Threads |-> IF t = DirectCaller THEN "fetch" ELSE "none"]
    /\ changes = [t \in Threads |-> <<>>]
    /\ rp = [t \in Threads |-> IF t = DirectCaller THEN 1 ELSE 0]
    /\ err = [t \in Threads |-> "nil"]
    /\ delivered = [k \in Calls |-> <<>>]
    /\ polledAt = [t \in Threads |-> 0]
    /\ h = [t \in Threads |-> NoCommit]
    /\ remCommit = [t \in Threads |-> NoCommit]
    /\ fetchHead = [t \in Threads |-> NoFetch]
    /\ setupIn = [k \in Calls |-> [clone |-> "none", head |-> "none", commit |-> NoCommit]]
    /\ nPolls = 1
    /\ polled = <<>>
    /\ produced = {}
    /\ handled = <<>>
    /\ sent = <<>>
    /\ panicked = FALSE

NextDiff ==
    \/ DiffFetch(DirectCaller)
    \/ DiffHead(DirectCaller)
    \/ DiffList(DirectCaller)
    \/ DiffResolve(DirectCaller)
    \/ DiffPull(DirectCaller)
    \/ DiffPullHead(DirectCaller)

SpecDiff == InitDiff /\ [][NextDiff]_vars

\* d is the chain of the n steps from commit l to commit r, oldest first.
IsChain(d, n, l, r) ==
    /\ Len(d) = n
    /\ n > 0 => d[1].from = l /\ d[n].to = r
    /\ \A i \in 1..n : parent[d[i].to] = d[i].from
    /\ \A i \in 1..(n - 1) : d[i + 1].from = d[i].to

\* The commits of the remote branch that the head of repository 1 had not
\* reached when it was cloned.
Newer == Ancestors(parent, RemoteTip) \ Ancestors(parent, repoBase[1])

\* C3: with the local head L an ancestor of the remote head R over N newer
\* commits, DiffRemote computes exactly the N CommitDiffs of the chain from L
\* to R, oldest first, and a Poll that returns no error returns them; with
\* L = R it computes and returns zero CommitDiffs.
C3_DiffRemoteChain ==
    IsAncestor(parent, repoBase[1], RemoteTip) =>
        /\ pc[DirectCaller] \in {"pull", "update"} =>
             IsChain(changes[DirectCaller], Cardinality(Newer), repoBase[1], RemoteTip)
        /\ pc[DirectCaller] = "idle" /\ err[DirectCaller] = "nil" /\ ~panicked =>
             IsChain(polled, Cardinality(Newer), repoBase[1], RemoteTip)
        /\ repoBase[1] = RemoteTip => changes[DirectCaller] = <<>> /\ polled = <<>>

\* A Poll has returned two CommitDiffs for a head two commits behind.
C3_Witness ==
    /\ pc[DirectCaller] = "idle"
    /\ err[DirectCaller] = "nil"
    /\ Cardinality(Newer) = 2
    /\ Len(polled) = 2
    /\ IsAncestor(parent, repoBase[1], RemoteTip)

----------------------------------------------------------------------------
\* Errors of a tick.

\* C4: the provider's already-up-to-date answer, given by repo.Fetch or by
\* Worktree.Pull when the remote branch has nothing newer than the local
\* head, is never the error that a Poll returns.
C4_UpToDateNotAnError ==
    \A t \in Threads : err[t] # "uptodate"

\* A tick of loop k whose Poll returned an error.
FailedTick(k) == err[k] # "nil"

\* C5: when the Poll of a tick fails, the loop is on its error branch with
\* nothing of that tick left to deliver, the poller is still Running with its
\* ticker; from the tick's start to the error branch no handler call and no
\* send is made; and the loop goes back to its select, where the next timer
\* fire calls Poll again.
C5_FailedTickSkipped ==
    /\ [](\A k \in Calls :
            /\ FailedTick(k) => /\ pc[k] = "failed"
                                /\ changes[k] = <<>>
                                /\ Running(k)
                                /\ ticker[k] = "running"
            /\ pc[k] = "select" /\ ticker[k] = "running" => ENABLED LoopTick(k))
    /\ [][\A k \in Calls :
            /\ pc[k] \in {"fetch", "head", "list", "resolve", "pull", "update", "failed"} =>
                 handled' = handled /\ sent' = sent
            /\ pc[k] = "failed" /\ pc'[k] # "failed" =>
                 /\ pc'[k] = "select"
                 /\ Running(k)'
                 /\ ticker'[k] = "running"]_vars

\* The Poll of a tick has failed while the remote branch had new commits.
C5_Witness ==
    \E k \in Calls :
        /\ pc[k] = "failed"
        /\ err[k] = "error"
        /\ repoHead[k] # RemoteTip
        /\ IsAncestor(parent, repoHead[k], RemoteTip)

----------------------------------------------------------------------------
\* Failure of setup.

\* The setup of call k failed: Clone, or HeadCommit in onStart, answered an error.
SetupFailed(k) == setupIn[k].clone = "error" \/ setupIn[k].head = "error"

\* C6: a call whose setup failed has returned the error (StartAsync without
\* the channel), has no ticker and no loop, and has run no Poll; the failing
\* call makes no handler call and no send, and a poller whose only call
\* failed never handles or sends anything.
C6_SetupFailure ==
    /\ [](\A k \in Calls :
            SetupFailed(k) => /\ call[k] = "err"
                              /\ ticker[k] = "none"
                              /\ pc[k] = "none"
                              /\ rp[k] = 0
                              /\ changes[k] = <<>>
                              /\ nStarts = 1 =>
                                   handled = <<>> /\ sent = <<>> /\ ~chanReturned)
    /\ [][\A k \in Calls :
            ~SetupFailed(k) /\ SetupFailed(k)' =>
                handled' = handled /\ sent' = sent /\ c' = c
                /\ chanReturned' = chanReturned]_vars

\* A Start whose HeadCommit failed, with a handler configured, has returned.
C6_Witness ==
    \E k \in Calls :
        /\ handlerSet
        /\ setupIn[k].clone = "ok"
        /\ setupIn[k].head = "error"
        /\ call[k] = "err"

----------------------------------------------------------------------------
\* Progress. Every thread that can take a step takes one; the consumer of a
\* returned channel keeps receiving; a select with a stop signal waiting
\* takes the closer case sooner or later (Go picks among ready cases at
\* random).

Fairness ==
    /\ \A k \in Calls : WF_vars(setup(k))
    /\ \A k \in Calls : WF_vars(returnChan(k))
    /\ \A t \in Threads : WF_vars(DiffFetch(t))
    /\ \A t \in Threads : WF_vars(DiffHead(t))
    /\ \A t \in Threads : WF_vars(DiffList(t))
    /\ \A t \in Threads : WF_vars(DiffResolve(t))
    /\ \A t \in Threads : WF_vars(DiffPull(t))
    /\ \A t \in Threads : WF_vars(DiffPullHead(t))
    /\ \A k \in Calls : WF_vars(LoopTick(k))
    /\ \A k \in Calls : SF_vars(LoopClose(k))
    /\ \A k \in Calls : WF_vars(LoopContinue(k))
    /\ \A k \in Calls : WF_vars(Handle(k))
    /\ \A k \in Calls : WF_vars(Send(k))
    /\ WF_vars(Receive)
    /\ WF_vars(StopUnblock)

LiveSpec == Spec /\ Fairness

\* C7: once Stop has been called while a blocking Start runs its loop, the
\* loop stops its ticker and Start returns nil (unless the process dies of a
\* panic); and Start returns nil only after Stop was called.
C7_StopReturnsStart ==
    /\ \A k \in Calls :
         (stopCalled = "running" /\ kind[k] = "sync" /\ call[k] = "running")
             ~> ((call[k] = "nil" /\ ticker[k] = "stopped") \/ panicked)
    /\ [](\A k \in Calls : call[k] = "nil" => stopCalled # "never")

\* C8: a blocking Start keeps polling until Stop is called: while its loop
\* runs, a Poll call always lies ahead unless Stop is called (or the process
\* dies of a panic), however many commits were detected before.
C8_StartKeepsPolling ==
    \A k \in Calls :
        (kind[k] = "sync" /\ call[k] = "running")
            ~> (pc[k] = "fetch" \/ stopCalled # "never" \/ panicked)

\* C9: a StartAsync whose setup worked is never made to wait for its loop:
\* once the loop is started the return of the channel is the call's next
\* step, whatever the loop is doing, and it changes nothing of the loop; the
\* consumer receives only CommitDiffs that the DiffRemote of a tick returned;
\* and a consumer that keeps receiving from the returned channel receives
\* every CommitDiff that the DiffRemote of a tick returned without error.
C9_AsyncDelivery ==
    /\ [](SeqRange(received) \subseteq produced)
    /\ [](\A k \in Calls : call[k] = "go" /\ ~panicked => ENABLED returnChan(k))
    /\ [][\A k \in Calls :
            call[k] # "chan" /\ call'[k] = "chan" =>
                /\ call[k] = "go"
                /\ chanReturned'
                /\ pc' = pc /\ ticker' = ticker /\ sent' = sent /\ c' = c]_vars
    /\ \A k \in Calls :
         (kind[k] = "async" /\ call[k] = "chan")
             ~> (produced \subseteq SeqRange(received))

----------------------------------------------------------------------------
\* The initial snapshot.

\* The handler calls made with Init-typed changes.
initCalls == SelectSeq(handled, LAMBDA hc : hc.kind = "init")

\* C10: over any sequence of Start, StartAsync, Stop and Poll calls the
\* handler is given Init-typed changes at most once, never without a handler
\* configured, and only by a call that is in its setup.
C10_InitAtMostOnce ==
    /\ [](Len(initCalls) <= 1)
    /\ [](~handlerSet => Len(initCalls) = 0)
    /\ [][Len(initCalls') # Len(initCalls) =>
            \E k \in Calls : call[k] = "setup" /\ pc[k] = "walk" /\ pc'[k] = "ticker"]_vars

----------------------------------------------------------------------------
\* The loop of Poll over the changes DiffRemote returned: filter and path
\* rewrite, with the file changes of every CommitDiff spelled out.

MaxDiffs == 2
MaxChanges == 2

ChangeTypes == {"update", "create"}
FileChanges == [Filepath : RelPaths, ChangeType : ChangeTypes]

\* path.Join(dir, fp).
Join(dir, fp) == dir \o fp

\* config.FileChangeFilter(ch).
filterAccepts(cfg, ch) == ch.Filepath \in cfg.accepts

RECURSIVE changeLoop(_, _, _, _, _)
\* for i, c := range change.Changes, from index i on. elem is the slice held
\* by the element of changes being looked at (the range runs over it);
\* loc is change.Changes of the loop variable, a copy of the element: it starts
\* as the same slice (aliased) and is replaced by a fresh slice of the
\* filtered changes when a filter is configured. The rewritten path is
\* stored at index i of loc, which panics when loc is shorter.
changeLoop(cfg, hasFilter, elem, loc, i) ==
    IF i > Len(elem) THEN [panic |-> FALSE, Changes |-> elem]
    ELSE LET ch == elem[i]
             loc1 == IF hasFilter
                     THEN [aliased |-> FALSE,
                           seq |-> IF filterAccepts(cfg, ch) THEN <<ch>> ELSE <<>>]
                     ELSE loc
             len == IF loc1.aliased THEN Len(elem) ELSE Len(loc1.seq)
             fp == Join(cfg.CloneDirectory, ch.Filepath)
         IN  IF i > len THEN [panic |-> TRUE, Changes |-> elem]
             ELSE IF loc1.aliased
             THEN changeLoop(cfg, hasFilter, [elem EXCEPT ![i].Filepath = fp], loc1, i + 1)
             ELSE changeLoop(cfg, hasFilter, elem,
                             [loc1 EXCEPT !.seq[i].Filepath = fp], i + 1)

\* One round of for _, change := range changes: what the element d of the
\* returned slice holds afterwards, or a panic.
pollChange(cfg, hasFilter, d) ==
    LET r == changeLoop(cfg, hasFilter, d.Changes, [aliased |-> TRUE, seq |-> <<>>], 1)
    IN  [panic |-> r.panic, diff |-> [d EXCEPT !.Changes = r.Changes]]

\* The next element of changes is gone over; polled holds the elements done.
PollChange(t) ==
    /\ ~panicked
    /\ pc[t] = "filter"
    /\ Len(polled) < Len(changes[t])
    /\ LET r == pollChange(config, filterSet, changes[t][Len(polled) + 1])
       IN  IF r.panic
           THEN panicked' = TRUE /\ UNCHANGED polled
           ELSE polled' = Append(polled, r.diff) /\ UNCHANGED panicked
    /\ UNCHANGED <<envVars, repoVars, repo, stopVars, c, chanReturned, cfgVars,
                   callVars, ticker, threadVars, nPolls, produced, handled, sent>>

\* return changes, nil
PollReturn(t) ==
    /\ ~panicked
    /\ pc[t] = "filter"
    /\ Len(polled) = Len(changes[t])
    /\ pc' = [pc EXCEPT ![t] = "idle"]
    /\ UNCHANGED <<envVars, repoVars, repo, stopVars, c, chanReturned, cfgVars,
                   callVars, ticker, changes, rp, delivered, polledAt, h, remCommit, fetchHead, err, nPolls, polled, produced,
                   handled, sent, panicked>>

ChangeLists == UNION {[1..n -> FileChanges] : n \in 0..MaxChanges}

\* What DiffRemote may return on a branch of n + 1 commits: the n steps,
\* each with the file changes the provider reports for it.
DiffLists(n) ==
    {[i \in 1..n |-> [from |-> i, to |-> i + 1, Changes |-> cl[i]]] :
        cl \in [1..n -> ChangeLists]}

\* A direct Poll whose DiffRemote has just returned without error.
InitPoll ==
    /\ \E n \in 0..MaxDiffs :
         /\ nCommits = n + 1
         /\ changes \in {[t \in Threads |-> IF t = DirectCaller THEN dl ELSE <<>>] :
                            dl \in DiffLists(n)}
    /\ parent = [x \in Commits |-> IF x <= nCommits THEN x - 1 ELSE NoCommit]
    /\ repo = 1
    /\ repoHead = [k \in Calls |-> IF k = 1 THEN nCommits ELSE NoCommit]
    /\ repoBase = [k \in Calls |-> IF k = 1 THEN 1 ELSE NoCommit]
    /\ repoObjs = [k \in Calls |-> IF k = 1 THEN 1..nCommits ELSE {}]
    /\ closer = 0
    /\ stopBlocked = 0
    /\ stopCalled = "never"
    /\ c = <<>>
    /\ chanReturned = FALSE
    /\ filterSet \in BOOLEAN
    /\ config \in {[TestConfig EXCEPT !.accepts = a, !.CloneDirectory = d] :
                      a \in IF filterSet THEN SUBSET RelPaths ELSE {{}},
                      d \in CloneDirs \ {NoPath}}
    /\ created = "poller"
    /\ handlerSet = FALSE
    /\ nStarts = 0
    /\ kind = [k \in Calls |-> "none"]
    /\ call = [k \in Calls |-> "none"]
    /\ ticker = [k \in Calls |-> "none"]
    /\ pc = [t \in Threads |-> IF t = DirectCaller THEN "filter" ELSE "none"]
    /\ rp = [t \in Threads |-> IF t = DirectCaller THEN 1 ELSE 0]
    /\ err = [t \in Threads |-> "nil"]
    /\ delivered = [k \in Calls |-> <<>>]
    /\ polledAt = [t \in Threads |-> 0]
    /\ h = [t \in Threads |-> NoCommit]
    /\ remCommit = [t \in Threads |-> NoCommit]
    /\ fetchHead = [t \in Threads |-> NoFetch]
    /\ setupIn = [k \in Calls |-> [clone |-> "none", head |-> "none", commit |-> NoCommit]]
    /\ nPolls = 1
    /\ polled = <<>>
    /\ produced = {}
    /\ handled = <<>>
    /\ sent = <<>>
    /\ panicked = FALSE

NextPoll ==
    \/ PollChange(DirectCaller)
    \/ PollReturn(DirectCaller)

SpecPoll == InitPoll /\ [][NextPoll]_vars

\* The i-th CommitDiff as DiffRemote returned it to the direct Poll.
reported(i) == changes[DirectCaller][i]

\* The changes of the CommitDiff d that the filter accepts, in their order.
accepted(d) == SelectSeq(d.Changes, LAMBDA ch : filterAccepts(config, ch))

\* The direct Poll has returned its changes.
PollDone == pc[DirectCaller] = "idle" /\ ~panicked

\* C11: with a filter configured Poll completes normally whatever the filter
\* answers and however many changes a CommitDiff has, and the Changes of each
\* CommitDiff it returns are the reported changes that the filter accepts, in
\* their order and with their change types.
C11_FilterExact ==
    filterSet =>
        /\ ~panicked
        /\ PollDone =>
             \A i \in 1..Len(polled) :
                 /\ Len(polled[i].Changes) = Len(accepted(reported(i)))
                 /\ \A j \in 1..Len(polled[i].Changes) :
                      /\ polled[i].Changes[j].ChangeType
                             = accepted(reported(i))[j].ChangeType
                      /\ polled[i].Changes[j].Filepath
                             \in {accepted(reported(i))[j].Filepath,
                                  Join(config.CloneDirectory,
                                       accepted(reported(i))[j].Filepath)}

\* C12: every FileChange that Poll returns, with or without a filter, has
\* the clone directory joined once with a repository-relative path as its
\* Filepath; without a filter, with the path reported at its position.
C12_PathRewrittenOnce ==
    PollDone =>
        \A i \in 1..Len(polled) :
            \A j \in 1..Len(polled[i].Changes) :
                /\ \E rel \in RelPaths :
                     polled[i].Changes[j].Filepath = Join(config.CloneDirectory, rel)
                /\ ~filterSet =>
                     polled[i].Changes[j].Filepath
                         = Join(config.CloneDirectory, reported(i).Changes[j].Filepath)

\* The filter rejects every change of the CommitDiff d, which has some.
AllRejected(d) == d.Changes # <<>> /\ accepted(d) = <<>>

\* C13: a CommitDiff whose changes are all rejected by the filter does not
\* stop Poll, and is returned with an empty change list and its from and to;
\* Poll returns as many CommitDiffs as DiffRemote reported.
C13_EmptiedDiffKept ==
    filterSet =>
        /\ panicked => ~AllRejected(reported(Len(polled) + 1))
        /\ PollDone =>
             /\ Len(polled) = Len(changes[DirectCaller])
             /\ \A i \in 1..Len(polled) :
                  /\ polled[i].from = reported(i).from
                  /\ polled[i].to = reported(i).to
                  /\ AllRejected(reported(i)) => polled[i].Changes = <<>>

----------------------------------------------------------------------------
\* The life of a poller.

\* The loop of call k has read the stop signal and returned.
Stopped(k) == pc[k] = "returned"

\* The setup of call k has run (Clone was called).
SetUp(k) == setupIn[k].clone # "none"

\* C14: once a loop of the poller has observed the stop signal and returned,
\* nothing further is sent on the delivery channel. (The producer has no
\* step that closes the channel.)
C14_NoSendAfterStopped ==
    [][(\E k \in Calls : Stopped(k)) => sent' = sent]_vars

\* C15: the poller is single-use: a Start or StartAsync call on a poller that
\* is Running or Stopped runs no setup, there is never a second tick loop,
\* and a Stopped poller never runs a tick loop again.
C15_SingleUse ==
    /\ [][\A k \in Calls :
            ~SetUp(k) /\ SetUp(k)' => \A j \in Calls : ~Running(j) /\ ~Stopped(j)]_vars
    /\ [](Cardinality({k \in Calls : Running(k)}) <= 1)
    /\ [][(\E k \in Calls : Stopped(k)) => \A j \in Calls : Running(j)' => Running(j)]_vars

----------------------------------------------------------------------------
\* Stop.

\* C16: when the stop signal is waiting in p.closer before the loop has
\* taken any tick, the loop does not take one: it runs no Poll, even if the
\* ticker has fired by the time the loop is at its select.
C16_StopBeforeFirstTick ==
    [][\A k \in Calls :
         pc[k] = "select" /\ rp[k] = 0 /\ closer > 0 => pc'[k] # "fetch"]_vars

\* A step in which a Stop call is made, and one in which the caller blocks.
StopStep ==
    \/ closer' = closer + 1 /\ stopBlocked' = stopBlocked
    \/ stopBlocked' = stopBlocked + 1
StopBlocks == stopBlocked' = stopBlocked + 1

\* The one Start or StartAsync call was made and has no loop, or none any more.
NoLoopLeft == nStarts = 1 /\ \A k \in Calls : pc[k] \in {"none", "returned"}

\* C17 as stated: the first Stop never blocks, and a later Stop made while
\* no loop is left to receive the signal blocks its caller.
C17_SecondStopBlocks ==
    /\ [][stopCalled = "never" /\ StopStep => ~StopBlocks]_vars
    /\ [][stopCalled # "never" /\ StopStep /\ NoLoopLeft => StopBlocks]_vars

\* C17 amended: the first Stop never blocks; a Stop blocks exactly when the
\* signal channel already holds an unread signal; and with no loop left to
\* read it, callers blocked on the full channel stay blocked.
C17_StopBlocksWhenFull ==
    /\ [][stopCalled = "never" /\ StopStep => ~StopBlocks]_vars
    /\ [][StopStep => (StopBlocks <=> closer = CloserCap)]_vars
    /\ [][NoLoopLeft /\ closer = CloserCap /\ stopBlocked > 0 =>
            stopBlocked' >= stopBlocked /\ closer' = closer]_vars

\* A Stop caller is blocked on the full signal channel with no loop left.
C17_Witness ==
    /\ NoLoopLeft
    /\ closer = CloserCap
    /\ stopBlocked > 0

----------------------------------------------------------------------------
\* Construction.

\* NewPoller(config): wdRes is what os.Getwd answers, keyRes what reading and
\* parsing the SSH key file gives.
NewPollerCall ==
    /\ created = "none"
    /\ \E wdRes \in NetResults, keyRes \in NetResults :
         /\ created' = IF newPollerErr(config, wdRes, keyRes) = "nil"
                       THEN "poller" ELSE "error"
         /\ config' = IF config.CloneDirectory = NoPath /\ wdRes = "error"
                      THEN [config EXCEPT !.Interval =
                                IF @ = 0 THEN DefaultInterval ELSE @]
                      ELSE withDefaults(config)
    /\ UNCHANGED <<envVars, repoVars, repo, stopVars, c, chanReturned, handlerSet,
                   filterSet, callVars, ticker, threadVars, nPolls, polled, produced,
                   handled, sent, panicked>>

\* Before NewPoller is called, with any configuration.
InitNew ==
    /\ created = "none"
    /\ handlerSet \in BOOLEAN
    /\ filterSet \in BOOLEAN
    /\ config \in {cfg \in Configs : ~filterSet => cfg.accepts = {}}
    /\ parent = [x \in Commits |-> NoCommit]
    /\ nCommits = 1
    /\ repoHead = [k \in Calls |-> NoCommit]
    /\ repoObjs = [k \in Calls |-> {}]
    /\ repoBase = [k \in Calls |-> NoCommit]
    /\ repo = 0
    /\ closer = 0
    /\ stopBlocked = 0
    /\ stopCalled = "never"
    /\ c = <<>>
    /\ chanReturned = FALSE
    /\ nStarts = 0
    /\ kind = [k \in Calls |-> "none"]
    /\ call = [k \in Calls |-> "none"]
    /\ ticker = [k \in Calls |-> "none"]
    /\ pc = [t \in Threads |-> IF t = DirectCaller THEN "idle" ELSE "none"]
    /\ changes = [t \in Threads |-> <<>>]
    /\ rp = [t \in Threads |-> 0]
    /\ err = [t \in Threads |-> "nil"]
    /\ delivered = [k \in Calls |-> <<>>]
    /\ polledAt = [t \in Threads |-> 0]
    /\ h = [t \in Threads |-> NoCommit]
    /\ remCommit = [t \in Threads |-> NoCommit]
    /\ fetchHead = [t \in Threads |-> NoFetch]
    /\ setupIn = [k \in Calls |-> [clone |-> "none", head |-> "none", commit |-> NoCommit]]
    /\ nPolls = 0
    /\ polled = <<>>
    /\ produced = {}
    /\ handled = <<>>
    /\ sent = <<>>
    /\ panicked = FALSE

SpecNew == InitNew /\ [][NewPollerCall]_vars

\* The rules GitAuthConfig states for its fields: SshKey is required if the
\* Username and Password are not set; Username is required if the SshKey is
\* not set or the Password is set; Password is required if the SshKey is not
\* set or the Username is set. (An SSH key with a username and a password
\* meets all three.)
AuthWellFormed(cfg) ==
    /\ (cfg.Username = Empty /\ cfg.Password = Empty) => cfg.SshKey # Empty
    /\ (cfg.SshKey = Empty \/ cfg.Password # Empty) => cfg.Username # Empty
    /\ (cfg.SshKey = Empty \/ cfg.Username # Empty) => cfg.Password # Empty

\* C18: NewPoller returns a poller only for a configuration that names the
\* remote and whose authentication descriptor is neither missing (it meets
\* the rules of GitAuthConfig) nor contradictory (no SSH key together with a
\* username or a password); otherwise it returns an error and no poller.
C18_NewPollerValidates ==
    created = "poller" =>
        /\ config.Remote # Empty
        /\ AuthWellFormed(config)
        /\ ~(config.SshKey # Empty /\ (config.Username # Empty \/ config.Password # Empty))

----------------------------------------------------------------------------
\* The range loop of a tick: handler, then send, one change after the other.

\* The loop of call k invokes the handler in this step.
HandlerStep(k) == pc[k] = "handle" /\ pc'[k] = "send"

\* The loop of call k is past the first change of its tick.
InsideTick(k) == delivered[k] # <<>>

\* The change the range loop of call k finished last in the running tick.
previousChange(k) == delivered[k][Len(delivered[k])]

\* C19: with a handler configured, HandleCommit is invoked for a CommitDiff
\* and has returned before that CommitDiff is sent on the delivery channel:
\* every send is of the CommitDiff the latest handler call was made for, no
\* handler call is in progress when it is sent, and at no time have more
\* CommitDiffs been sent than handled.
C19_HandlerBeforeSend ==
    /\ [](handlerSet => Len(sent) <= Len(handledDiffs))
    /\ [][handlerSet /\ sent' # sent =>
            /\ Len(sent') = Len(handledDiffs)
            /\ handledDiffs[Len(sent')] = DiffCall(sent'[Len(sent')])
            /\ handled' = handled]_vars

\* The handler has returned for the second change of a tick, whose send is
\* next, after the first change of the tick was handled and sent.
C19_Witness ==
    /\ handlerSet
    /\ \E k \in Calls : /\ pc[k] = "send"
                        /\ InsideTick(k)
                        /\ Len(handledDiffs) = Len(sent) + 1

\* C20 as stated: within a tick the handler for the next CommitDiff is not
\* invoked until the consumer has received the previous CommitDiff from the
\* delivery channel.
C20_NextHandlerAfterReceive ==
    [][\A k \in Calls : HandlerStep(k) /\ InsideTick(k) =>
            previousChange(k) \in SeqRange(received) /\ c = <<>>]_vars

\* C20, amended: within a tick the handler for the next CommitDiff is not
\* invoked until the send of the previous CommitDiff has completed, that is,
\* until the delivery channel has taken it into its buffer; the consumer
\* need not have received it yet, and at that moment at most as many sent
\* CommitDiffs are unreceived as the buffer holds (one).
C20_NextHandlerAfterSend ==
    [][\A k \in Calls : HandlerStep(k) /\ InsideTick(k) =>
            /\ previousChange(k) \in SeqRange(sent)
            /\ Len(sent) - Len(received) <= ChanCap]_vars

\* The handler was invoked for the second change of a tick while the first
\* one is still in the channel's buffer.
C20_Witness ==
    /\ handlerSet
    /\ \E k \in Calls : /\ pc[k] = "send"
                        /\ InsideTick(k)
                        /\ c = <<previousChange(k)>>
                        /\ received = <<>>

----------------------------------------------------------------------------
\* Cancellation.

\* The loop of call k is inside a tick: in Poll, in a handler call or at a send.
MidTick(k) ==
    pc[k] \in {"fetch", "head", "list", "resolve", "pull", "update", "failed", "handle",
              "send"}

\* The loop of call k returns in this step.
LoopReturns(k) == pc[k] # "returned" /\ pc'[k] = "returned"

\* C21: the stop signal is observed only between ticks. A loop returns only
\* from its select, with nothing of a tick left to handle or send; a Stop call
\* made while a loop is inside a tick changes nothing of that tick; and while
\* a stop signal waits, a loop inside a tick goes on with the tick: the Poll
\* in flight runs to its end, and every CommitDiff a Poll returned to the loop
\* has been handled (with a handler configured) and sent when the loop returns.
C21_StopOnlyBetweenTicks ==
    /\ [][\A k \in Calls :
            /\ LoopReturns(k) => /\ pc[k] = "select"
                                 /\ changes[k] = <<>>
                                 /\ delivered[k] = <<>>
            /\ MidTick(k) /\ StopStep =>
                 /\ pc'[k] = pc[k]
                 /\ changes'[k] = changes[k]
                 /\ ticker'[k] = ticker[k]
            /\ MidTick(k) /\ closer > 0 /\ pc'[k] # pc[k] =>
                 /\ ~LoopReturns(k)
                 /\ pc[k] = "fetch" => pc'[k] \in {"head", "failed"}
                 /\ pc[k] = "head" => pc'[k] = "list"
                 /\ pc[k] = "list" => pc'[k] \in {"resolve", "failed"}
                 /\ pc[k] = "resolve" => pc'[k] \in {"pull", "failed"}
                 /\ pc[k] = "pull" => pc'[k] \in {"update", "failed"}
                 /\ pc[k] = "handle" => pc'[k] = "send"
                 /\ pc[k] = "send" => sent' = Append(sent, Head(changes[k]))]_vars
    /\ [](\A k \in Calls :
            pc[k] = "returned" =>
                /\ produced \subseteq SeqRange(sent)
                /\ handlerSet =>
                     \A d \in produced : DiffCall(d) \in SeqRange(handledDiffs))

\* A stop signal waits while the loop is inside a tick of two CommitDiffs:
\* the first is sent, the second is handled and its send is next.
C21_Witness ==
    \E k \in Calls :
        /\ pc[k] = "send"
        /\ InsideTick(k)
        /\ closer > 0
        /\ stopCalled = "running"
        /\ handlerSet

----------------------------------------------------------------------------
\* Access to the repository handle.

\* Thread t is executing Poll: DiffRemote is at its fetch, its diff (the head,
\* the remote commit, the walk) or its pull (the fetch, the head update).
InPoll(t) == pc[t] \in {"fetch", "head", "list", "resolve", "pull", "update"}

\* C22: for any sequence of Start, StartAsync, Poll and Stop calls, no two
\* Poll executions operate on the same repository handle at the same time.
C22_OnePollAtATime ==
    \A t, u \in Threads :
        InPoll(t) /\ InPoll(u) /\ rp[t] = rp[u] => t = u

----------------------------------------------------------------------------
\* A local head that is not on the first-parent history of the remote head.

\* The head DiffRemote read for thread t is not met by the walk back from the
\* remote commit it was listed.
Diverged(t) == ~IsAncestor(parent, h[t], remCommit[t])

\* C23: when the local head is not reached by walking first parents back from
\* the remote head, the walk fails: the step of DiffRemote that lists the
\* commits ends the Poll with an error and no CommitDiffs, without a pull
\* (the local head and the object store stay as they are) and without a second
\* walk.
C23_AncestryNotFound ==
    [][\A t \in Threads :
         pc[t] = "resolve" /\ pc'[t] # "resolve" /\ Diverged(t) =>
             /\ pc'[t] = IF t = DirectCaller THEN "idle" ELSE "failed"
             /\ err'[t] = "error"
             /\ changes'[t] = <<>>
             /\ polled' = polled
             /\ produced' = produced
             /\ repoHead' = repoHead
             /\ repoObjs' = repoObjs]_vars

\* A Poll has returned an error on a head that the remote history does not
\* contain, after a fetch that brought the remote history in.
C23_Witness ==
    /\ pc[DirectCaller] = "idle"
    /\ err[DirectCaller] = "error"
    /\ ~IsAncestor(parent, repoHead[1], RemoteTip)
    /\ RemoteTip \in repoObjs[1]
    /\ repoHead[1] = repoBase[1]
    /\ polled = <<>>

----------------------------------------------------------------------------
\* Diff of two commits, with the entries of the provider's tree diff spelled
\* out. An entry has a from side and a to side; a side that is absent has the
\* empty name.

TreeNames == {NoPath} \cup RelPaths
TreeEntries == [From : TreeNames, To : TreeNames]

\* d.Action() of the provider: Insert without a from side, Delete without a
\* to side, Modify with both, an error with neither.
treeAction(d) ==
    IF d.From = NoPath /\ d.To = NoPath THEN "malformed"
    ELSE IF d.From = NoPath THEN "Insert"
    ELSE IF d.To = NoPath THEN "Delete"
    ELSE "Modify"

\* The switch over the action; a FileChange starts with the zero ChangeType,
\* which is ChangeTypeUpdate.
changeTypeOf(a) ==
    CASE a = "Modify" -> "update"
      [] a = "Delete" -> "delete"
      [] a = "Insert" -> "create"
      [] OTHER -> "update"

\* changePath as it would be if every change took the to side's name.
changePathToSide(ct, d) == d.To

\* The Filepath of the change made for entry d.
changePath(ct, d) == IF ct = "delete" THEN d.From ELSE d.To

\* The FileChange made for entry d.
fileChange(d) ==
    LET ct == changeTypeOf(treeAction(d))
    IN  [Filepath |-> changePath(ct, d), ChangeType |-> ct]

\* gitImpl.Diff(from, to) when the tree diff is entries: an error if the
\* action of an entry is one, else one FileChange per entry, appended in the
\* order of the entries.
diffEntries(from, to, entries) ==
    IF \E i \in 1..Len(entries) : treeAction(entries[i]) = "malformed"
    THEN [err |-> TRUE, diff |-> [from |-> from, to |-> to, Changes |-> <<>>]]
    ELSE [err |-> FALSE,
          diff |-> [from |-> from, to |-> to,
                    Changes |-> [i \in 1..Len(entries) |-> fileChange(entries[i])]]]

\* Thread t calls Diff on the step held in changes[t], whose Entries are the
\* tree diff the provider reports; polled receives the CommitDiff.
DiffCommits(t) ==
    /\ ~panicked
    /\ pc[t] = "diff"
    /\ LET st == changes[t][1]
           r == diffEntries(st.from, st.to, st.Entries)
       IN  IF r.err
           THEN err' = [err EXCEPT ![t] = "error"] /\ UNCHANGED polled
           ELSE polled' = Append(polled, r.diff) /\ UNCHANGED err
    /\ pc' = [pc EXCEPT ![t] = "idle"]
    /\ UNCHANGED <<envVars, repoVars, repo, stopVars, c, chanReturned, cfgVars,
                   callVars, ticker, changes, rp, delivered, polledAt, h, remCommit, fetchHead, nPolls, produced, handled,
                   sent, panicked>>

EntryLists == UNION {[1..n -> TreeEntries] : n \in 0..MaxChanges}

\* A call of Diff on the two commits of a branch, for every tree diff of the
\* bound.
InitTree ==
    /\ nCommits = 2
    /\ parent = [x \in Commits |-> IF x = 2 THEN 1 ELSE NoCommit]
    /\ changes \in {[t \in Threads |->
                        IF t = DirectCaller
                        THEN <<[from |-> 1, to |-> 2, Entries |-> es]>> ELSE <<>>] :
                     es \in EntryLists}
    /\ repo = 1
    /\ repoHead = [k \in Calls |-> IF k = 1 THEN 1 ELSE NoCommit]
    /\ repoBase = [k \in Calls |-> IF k = 1 THEN 1 ELSE NoCommit]
    /\ repoObjs = [k \in Calls |-> IF k = 1 THEN {1, 2} ELSE {}]
    /\ closer = 0
    /\ stopBlocked = 0
    /\ stopCalled = "never"
    /\ c = <<>>
    /\ chanReturned = FALSE
    /\ config = TestConfig
    /\ created = "poller"
    /\ handlerSet = FALSE
    /\ filterSet = FALSE
    /\ nStarts = 0
    /\ kind = [k \in Calls |-> "none"]
    /\ call = [k \in Calls |-> "none"]
    /\ ticker = [k \in Calls |-> "none"]
    /\ pc = [t \in Threads |-> IF t = DirectCaller THEN "diff" ELSE "none"]
    /\ rp = [t \in Threads |-> IF t = DirectCaller THEN 1 ELSE 0]
    /\ err = [t \in Threads |-> "nil"]
    /\ delivered = [k \in Calls |-> <<>>]
    /\ polledAt = [t \in Threads |-> 0]
    /\ h = [t \in Threads |-> NoCommit]
    /\ remCommit = [t \in Threads |-> NoCommit]
    /\ fetchHead = [t \in Threads |-> NoFetch]
    /\ setupIn = [k \in Calls |-> [clone |-> "none", head |-> "none", commit |-> NoCommit]]
    /\ nPolls = 1
    /\ polled = <<>>
    /\ produced = {}
    /\ handled = <<>>
    /\ sent = <<>>
    /\ panicked = FALSE

NextTree == DiffCommits(DirectCaller)

SpecTree == InitTree /\ [][NextTree]_vars

\* The tree diff given to the call.
entriesIn == changes[DirectCaller][1].Entries

\* The call of Diff has returned a CommitDiff.
DiffDone == pc[DirectCaller] = "idle" /\ err[DirectCaller] = "nil"

\* C24: the CommitDiff that Diff returns has one change per entry of the tree
\* diff, in the order of the entries: Update for an entry with both sides,
\* Create for an entry with a to side only, Delete for an entry with a from
\* side only; a Delete carries the name of the from side, every other change
\* the name of the to side.
C24_DiffClassifies ==
    DiffDone =>
        /\ Len(polled) = 1
        /\ Len(polled[1].Changes) = Len(entriesIn)
        /\ \A i \in 1..Len(entriesIn) :
             LET e == entriesIn[i]
                 ch == polled[1].Changes[i]
             IN  /\ e.From # NoPath /\ e.To # NoPath => ch.ChangeType = "update"
                 /\ e.From = NoPath => ch.ChangeType = "create"
                 /\ e.To = NoPath => ch.ChangeType = "delete"
                 /\ ch.ChangeType = "delete" => ch.Filepath = e.From
                 /\ ch.ChangeType # "delete" => ch.Filepath = e.To

\* Diff has returned a Delete followed by a Create, on a tree diff that lists
\* the removal of one file before the addition of another.
C24_Witness ==
    /\ DiffDone
    /\ Len(entriesIn) = 2
    /\ entriesIn[1].To = NoPath
    /\ entriesIn[2].From = NoPath
    /\ polled[1].Changes[1] = [Filepath |-> entriesIn[1].From, ChangeType |-> "delete"]
    /\ polled[1].Changes[2] = [Filepath |-> entriesIn[2].To, ChangeType |-> "create"]

----------------------------------------------------------------------------
\* The initial snapshot of a run.

\* The setup of call k makes its handler call in this step.
InitStep(k) == pc[k] = "walk" /\ pc'[k] # "walk"

\* C25: with a handler configured, setup makes exactly one handler call, with
\* Init-typed changes only and the head commit of the repository it cloned as
\* both from and to; the ticker of the call does not exist at that step and
\* is not created by it, and no Poll of the call has run; so whenever a
\* ticker exists or a loop is in a tick, the Init call of its setup has been
\* made, and the first handler call of all is an Init call; one setup makes
\* no second Init call.
C25_InitBeforePolling ==
    /\ [][\A k \in Calls :
            handlerSet /\ InitStep(k) =>
                /\ handled' = Append(handled, [kind |-> "init",
                                               from |-> repoHead[k],
                                               to |-> repoHead[k]])
                /\ call[k] = "setup"
                /\ ticker[k] = "none" /\ ticker'[k] = "none"
                /\ pc'[k] = "ticker"
                /\ rp[k] = 0]_vars
    /\ [][\A k \in Calls :
            ticker[k] = "none" /\ ticker'[k] # "none" =>
                /\ pc[k] = "ticker" /\ pc'[k] = "select"
                /\ rp'[k] = 0
                /\ handled' = handled]_vars
    /\ [](\A k \in Calls :
            handlerSet /\ (pc[k] = "ticker" \/ ticker[k] # "none" \/ MidTick(k)) =>
                /\ handled # <<>>
                /\ handled[1].kind = "init"
                /\ \E i \in 1..Len(initCalls) :
                     /\ initCalls[i].from = repoBase[k]
                     /\ initCalls[i].to = repoBase[k])
    /\ [](nStarts <= 1 => Len(initCalls) <= 1)

----------------------------------------------------------------------------
\* The local head after a Poll.

\* The Poll of thread t returns without error in this step.
PollSucceeds(t) ==
    /\ pc[t] = "update"
    /\ pc'[t] \notin {"update", "failed"}
    /\ err'[t] = "nil"
    /\ ~panicked'

\* The Poll of thread t returns an error in this step.
PollFails(t) ==
    /\ InPoll(t)
    /\ ~InPoll(t)'
    /\ err'[t] # "nil"

\* C26: a Poll that returns without error leaves the local head at the to
\* commit of the last CommitDiff it returns, or where it was when it returns
\* none, also when the remote branch moved on between the listing of the
\* remote head and the pull.
C26_HeadAtLastReturned ==
    [][\A t \in Threads :
         PollSucceeds(t) =>
             repoHead'[rp[t]] = IF changes[t] = <<>> THEN repoHead[rp[t]]
                                ELSE changes[t][Len(changes[t])].to]_vars

\* The range from the local head of repository r to the remote head: the
\* commits the next Poll has to report.
Pending(r) == Ancestors(parent, RemoteTip) \ Ancestors(parent, repoHead[r])

\* C27: a Poll that returns an error has not moved the local head: no step
\* of a Poll before its pull moves it, and the step in which a Poll returns
\* an error leaves the head, and with it the range from the local head to the
\* remote head, as it was; nothing is handled or sent for it.
C27_FailedPollKeepsHead ==
    [][\A t \in Threads :
         /\ PollFails(t) =>
              /\ repoHead' = repoHead
              /\ repoBase' = repoBase
              /\ \A r \in Calls : Pending(r)' = Pending(r)
              /\ handled' = handled
              /\ sent' = sent
         /\ pc[t] \in {"fetch", "head", "list", "resolve", "pull"} /\ pc'[t] # pc[t] =>
              repoHead' = repoHead]_vars

\* The Poll of a tick has failed after its fetch, two commits behind the
\* remote branch; the head is where the clone left it.
C27_Witness ==
    \E k \in Calls :
        /\ pc[k] = "failed"
        /\ err[k] = "error"
        /\ RemoteTip \in repoObjs[k]
        /\ repoHead[k] = repoBase[k]
        /\ Cardinality(Pending(k)) = 2

----------------------------------------------------------------------------
\* Direct calls of Poll beside a run.

\* One run of a poller that has no filter configured, with direct calls of
\* Poll on the side.
NextDirect ==
    \/ Push
    \/ ForcePush
    \/ (nStarts = 0 /\ Start)
    \/ (nStarts = 0 /\ StartAsync)
    \/ Stop
    \/ StopUnblock
    \/ DirectPoll
    \/ Receive
    \/ ThreadStep

SpecDirect == InitNoFilter /\ [][NextDirect]_vars

\* A poller configured with neither a filter nor a handler.
InitRestart == InitNoFilter /\ ~handlerSet

\* Any sequence of Start, StartAsync and direct Poll calls on one poller that
\* has neither a filter nor a handler and is never stopped, with a consumer on
\* the channel, while the remote branch receives its first pushes. (No Stop
\* call is made, so no loop ever reads a stop signal; without a handler
\* onStart returns at once and a loop delivers on the channel only.)
NextRestart ==
    \/ (nCommits < MaxCommits - 1 /\ Push)
    \/ Start
    \/ StartAsync
    \/ DirectPoll
    \/ Receive
    \/ \E k \in Calls : setupAssign(k)
    \/ \E k \in Calls : HeadCommit(k)
    \/ \E k \in Calls : setupTicker(k)
    \/ \E k \in Calls : returnChan(k)
    \/ \E t \in Threads : DiffFetch(t)
    \/ \E t \in Threads : DiffHead(t)
    \/ \E t \in Threads : DiffList(t)
    \/ \E t \in Threads : DiffResolve(t)
    \/ \E t \in Threads : DiffPull(t)
    \/ \E t \in Threads : DiffPullHead(t)
    \/ \E k \in Calls : LoopTick(k)
    \/ \E k \in Calls : LoopContinue(k)
    \/ \E k \in Calls : Send(k)

SpecRestart == InitRestart /\ [][NextRestart]_vars

\* The direct caller takes a step of its Poll.
DirectStep == nPolls' # nPolls \/ pc'[DirectCaller] # pc[DirectCaller]

\* C28: a direct call of Poll makes no handler call and no send, and leaves
\* the channels and every ticker alone; when it returns without error its
\* caller has the CommitDiffs it computed and the local head has moved
\* forward; and no later tick delivers them: a tick that starts after direct
\* calls have returned CommitDiffs computes none of those, and a loop sends
\* only what its tick computed.
C28_DirectPollOnlyReturns ==
    /\ [][DirectStep =>
            /\ handled' = handled
            /\ sent' = sent
            /\ c' = c
            /\ closer' = closer
            /\ ticker' = ticker
            /\ produced' = produced]_vars
    /\ [][PollSucceeds(DirectCaller) =>
            /\ polled' = polled \o changes[DirectCaller]
            /\ LET r == rp[DirectCaller]
               IN  /\ IsAncestor(parent, repoHead[r], repoHead'[r])
                   /\ changes[DirectCaller] # <<>> => repoHead'[r] # repoHead[r]]_vars
    /\ [][\A k \in Calls :
            /\ pc[k] = "resolve" /\ pc'[k] = "pull" =>
                 \A i \in 1..polledAt[k] : polled[i] \notin SeqRange(changes'[k])
            /\ sent' # sent /\ pc[k] = "send" =>
                 sent' = Append(sent, Head(changes[k]))]_vars

====
